---- MODULE Spec2Model ----
(***************************************************************************)
(* Wallet challenge-response authentication of Xelma-Backend.              *)
(*                                                                         *)
(* The two handlers of src/src/routes/auth.routes.ts, POST /challenge and  *)
(* POST /connect, run as concurrent request processes over a shared        *)
(* challenge table and user table.  A handler is cut at its awaits: one    *)
(* action is the store operation an await waits for, followed by the       *)
(* synchronous code that runs when the await resumes, up to the call of    *)
(* the next store operation.  Values the synchronous code reads from the   *)
(* clock (new Date()) are kept in the request's locals, so that the store  *)
(* operation that writes them can happen later than the clock read.        *)
(*                                                                         *)
(* Time is counted in minutes.  The store follows Prisma's semantics:      *)
(* update and delete throw when no row matches, create throws on a unique  *)
(* constraint, deleteMany never throws for an empty match; any operation   *)
(* may also throw a transient I/O error.                                   *)
(*                                                                         *)
(* authenticateToken of src/src/middleware/rateLimiter.middleware.ts, the  *)
(* middleware of the protected routes, is synchronous: one action per      *)
(* request.                                                                *)
(***************************************************************************)
EXTENDS Integers, Sequences, FiniteSets

VARIABLES
    now,              \* the clock, in minutes
    ticks,            \* how often the clock has advanced (bounds the run)
    challenges,       \* rows of the authChallenge table
    users,            \* rows of the user table
    nextChallengeId,  \* next id the store gives an authChallenge row
    nextUserId,       \* next id the store gives a user row
    proc,             \* the request each process serves, with its locals
    last,             \* the response just sent, with the request it answers
    requests,         \* how many requests have been started (bounds the run)
    faults,           \* how many store operations have thrown an I/O error
    issued,           \* history: tokens POST /challenge has returned with 200
    marked,           \* history: <<challenge, k>>, the k-th mark-used write on it
    succeeded,        \* history: <<walletAddress, challenge, signature, k>>, the
                      \* k-th 200 that POST /connect sent for the challenge
    failed,           \* history: <<challenge, step>>, a POST /connect that threw
                      \* at the step, after its mark-used write
    authReq           \* the request to a protected route each process has
                      \* received, with what authenticateToken made of it

vars == <<now, ticks, challenges, users, nextChallengeId, nextUserId, proc,
          last, requests, faults, issued, marked, succeeded, failed, authReq>>

----------------------------------------------------------------------------
(* Bounds of the model *)

MaxTicks == 1
MaxChallenges == 2
MaxRequests == 4
MaxFaults == 1
MaxAnyRequests == 3
NumRandom == 1

\* two requests are served at a time
Procs == {1, 2}

\* the values crypto.randomBytes may return
RandomValues == 0..(NumRandom - 1)

----------------------------------------------------------------------------
(* Program constants *)

CHALLENGE_EXPIRY_MINUTES == 5

\* 24 * 60 * 60 * 1000 ms, in minutes
RetentionMinutes == 24 * 60

\* one step of the clock: up to the end of a challenge's window, just past
\* it, or just past the retention window
TickSteps ==
    {CHALLENGE_EXPIRY_MINUTES, CHALLENGE_EXPIRY_MINUTES + 1, RetentionMinutes + 1}

\* a column that holds no value (usedAt, userId), a local not yet assigned
Null == -1

----------------------------------------------------------------------------
(* Request inputs *)

Wallets == {"GA", "GB"}

\* a missing (falsy) challenge or signature field
Missing == <<>>

\* a challenge string that POST /challenge never produces
BogusToken == <<"bogus">>

\* a signature by signer over msg
Sign(signer, msg) == <<signer, msg>>

\* the requests modelled pass validation: every field is present and the
\* address is well-formed; the challenge is one that was issued or a made-up
\* one, the signature is by either wallet over it, or by the sender over
\* something else
WellFormedTokens == issued \cup {BogusToken}

WellFormedSignatures(w, c) ==
    {Sign(x, c) : x \in Wallets} \cup {Sign(w, BogusToken)}

\* any request body: the walletAddress well-formed, malformed or missing,
\* the challenge and the signature present or missing
WalletInputs == Wallets \cup {"bad", ""}

TokenInputs == WellFormedTokens \cup {Missing}

SignatureInputs(w, c) ==
    IF w \in Wallets THEN WellFormedSignatures(w, c) \cup {Missing}
    ELSE {Sign("GA", c), Missing}

----------------------------------------------------------------------------
(* Collaborators outside the routes *)

isValidStellarAddress(w) == w \in Wallets

\* verifies that signature is by walletAddress over exactly the challenge
verifySignature(walletAddress, challenge, signature) ==
    /\ Len(signature) = 2
    /\ signature[1] = walletAddress
    /\ signature[2] = challenge

\* the session token embeds the user id and wallet address it was issued for
generateToken(userId, walletAddress) == <<userId, walletAddress>>

\* the ids a session token may carry
UserIds == {1, 2}

\* the session tokens in circulation: issued for a user and a wallet, and the
\* same past their lifetime
SessionTokens == {generateToken(u, w) : u \in UserIds, w \in Wallets}

StaleTokens == {<<t[1], t[2], "expired">> : t \in SessionTokens}

\* req.user when no middleware has set it; the null result of verifyToken
NoClaims == [userId |-> 0, walletAddress |-> ""]

\* the claims of a token that is well-formed, signed by the server and not
\* expired; null for every other token
verifyToken(token) ==
    IF token \in SessionTokens
    THEN [userId |-> token[1], walletAddress |-> token[2]]
    ELSE NoClaims

----------------------------------------------------------------------------
(* challenge.util *)

\* `xelma_auth_${timestamp}_${randomBytes}`
generateChallenge(timestamp, randomBytes) ==
    <<"xelma_auth", timestamp, randomBytes>>

getChallengeExpiry(t) == t + CHALLENGE_EXPIRY_MINUTES

isChallengeExpired(expiresAt, t) == t > expiresAt

----------------------------------------------------------------------------
(* Rows and locals *)

NoChallenge ==
    [id |-> 0, challenge |-> Missing, walletAddress |-> "", expiresAt |-> Null,
     isUsed |-> FALSE, usedAt |-> Null, userId |-> Null]

\* a user row; createdAt, which the store sets and nothing reads back but the
\* response, is left out
NoUser == [id |-> 0, walletAddress |-> "", lastLoginAt |-> Null]

\* a user row that an earlier run of the server left in the store
EarlierUser == [id |-> 1, walletAddress |-> "GA", lastLoginAt |-> 0]

IdleProc ==
    [pc |-> "idle", route |-> "", walletAddress |-> "", challenge |-> Missing,
     signature |-> Missing, authChallenge |-> NoChallenge, expiresAt |-> Null,
     cutoff |-> Null, usedAt |-> Null, user |-> NoUser, now |-> Null,
     expired |-> FALSE, token |-> Missing, status |-> 0, reason |-> "",
     threw |-> "", at |-> "", replay |-> FALSE, late |-> FALSE]

\* res.status(st).json(...): the request is answered
Respond(r, st) == [r EXCEPT !.pc = "done", !.status = st]

\* a 400 or 401 answer, with the check that rejected the request
Reject(r, st, why) == [r EXCEPT !.pc = "done", !.status = st, !.reason = why]

\* no catch block: the exception leaves the handler and no answer is sent
CatchNothing(r, why) == [r EXCEPT !.pc = "thrown", !.threw = why, !.at = r.pc]

\* the catch block: an exception of kind why, thrown at the step the handler
\* was in, ends the request with 500
Catch(r, why) ==
    [r EXCEPT !.pc = "done", !.status = 500, !.threw = why, !.at = r.pc]

\* the message of a 4xx answer, by the check that rejected the request
Message(why) ==
    CASE why = "missing"   -> "walletAddress, challenge, and signature are required"
      [] why = "format"    -> "Invalid Stellar wallet address format"
      [] why = "absent"    -> "Invalid or expired challenge"
      [] why = "mismatch"  -> "Challenge does not match wallet address"
      [] why = "expired"   -> "Challenge has expired. Please request a new one."
      [] why = "used"      -> "Challenge has already been used"
      [] why = "signature" -> "Invalid signature"
      [] OTHER             -> ""

\* what the client sees of an answer of POST /connect that is not a 200: the
\* status and the message
ResponseBody(r) ==
    IF r.status = 500 THEN <<500, "Failed to authenticate wallet">>
    ELSE <<r.status, Message(r.reason)>>

----------------------------------------------------------------------------
(* Store operations *)

\* prisma.authChallenge.findUnique({ where: { challenge } })
FindChallenge(c) ==
    IF \E row \in challenges : row.challenge = c
    THEN CHOOSE row \in challenges : row.challenge = c
    ELSE NoChallenge

\* whether update / delete ({ where: { id } }) finds its row
ChallengeRowExists(id) == \E row \in challenges : row.id = id

\* the lookup ignores its where clause: the first user row is returned
FindUserAny(w) ==
    IF users # {} THEN CHOOSE u \in users : TRUE ELSE NoUser

\* prisma.user.findUnique({ where: { walletAddress } })
FindUser(w) ==
    IF \E u \in users : u.walletAddress = w
    THEN CHOOSE u \in users : u.walletAddress = w
    ELSE NoUser

\* no request to a protected route is at the process
NoAuthRequest ==
    [pc |-> "idle", header |-> Missing, status |-> 0, message |-> "",
     user |-> NoClaims, nextCalled |-> FALSE]

\* the store as the server finds it: no challenge is outstanding, and the
\* wallet GA has or has not logged in before
Init ==
    /\ now = 0
    /\ ticks = 0
    /\ challenges = {}
    /\ users \in {{}, {EarlierUser}}
    /\ nextChallengeId = 1
    /\ nextUserId = IF users = {} THEN 1 ELSE 2
    /\ proc = [p \in Procs |-> IdleProc]
    /\ last = IdleProc
    /\ requests = 0
    /\ faults = 0
    /\ issued = {}
    /\ marked = {}
    /\ succeeded = {}
    /\ failed = {}
    /\ authReq = [p \in Procs |-> NoAuthRequest]

\* how often the challenge c was written used, and how often answered 200
TimesMarked(c) == Cardinality({m \in marked : m[1] = c})

TimesSucceeded(c) == Cardinality({t \in succeeded : t[2] = c})

\* whether the very request (w, c, s) has been answered 200 before
Replayed(w, c, s) == \E t \in succeeded : <<t[1], t[2], t[3]>> = <<w, c, s>>

\* the steps of POST /connect that follow the mark-used write
AfterMarkUsed == {"findUser", "upsert", "link", "purge"}

\* the steps that look up, create or update the user
UserSteps == {"findUser", "upsert"}

\* whether a POST /connect with the challenge c threw in a user step
FailedInUserStep(c) == \E f \in failed : f[1] = c /\ f[2] \in UserSteps

\* the process serves no request
Free(p) == proc[p].pc = "idle"

\* process p goes on as r: either r is answered, which frees the process and
\* leaves the response in last, or the handler awaits its next operation
Step(p, r) ==
    IF r.pc = "done"
    THEN /\ proc' = [proc EXCEPT ![p] = IdleProc]
         /\ last' = r
         /\ failed' = IF r.at \in AfterMarkUsed
                       THEN failed \cup {<<r.challenge, r.at>>}
                       ELSE failed
    ELSE /\ proc' = [proc EXCEPT ![p] = r]
         /\ last' = IdleProc
         /\ failed' = failed

\* an awaited operation may throw a transient error
MayFail(fail) == fail => faults < MaxFaults

Faults(fail) == IF fail THEN faults + 1 ELSE faults

----------------------------------------------------------------------------
(* The clock *)

Tick(d) ==
    /\ ticks < MaxTicks
    /\ now' = now + d
    /\ ticks' = ticks + 1
    /\ last' = IdleProc
    /\ UNCHANGED <<authReq, challenges, users, nextChallengeId, nextUserId, proc,
                   requests, faults, issued, marked, succeeded, failed>>

----------------------------------------------------------------------------
(* POST /challenge *)

\* the rows deleteMany({ walletAddress, expiresAt: { lt } }) matches
ExpiredOf(w, before) ==
    {row \in challenges : row.walletAddress = w /\ row.expiresAt < before}

\* lines 28-58: validation, the housekeeping deleteMany; then the challenge
\* and its expiry are made and create is called
ChallengeStart(p, w, rnd, fail) ==
    /\ Free(p)
    /\ requests < MaxRequests
    /\ nextChallengeId <= MaxChallenges
    /\ MayFail(fail)
    /\ fail => w # "" /\ isValidStellarAddress(w)
    /\ requests' = requests + 1
    /\ faults' = Faults(fail)
    /\ LET r == [IdleProc EXCEPT !.pc = "chPurge", !.route = "challenge",
                                   !.walletAddress = w]
       IN  IF w = ""
           THEN Step(p, Reject(r, 400, "missing")) /\ UNCHANGED challenges
           ELSE IF ~isValidStellarAddress(w)
           THEN Step(p, Reject(r, 400, "format")) /\ UNCHANGED challenges
           ELSE IF fail
           THEN Step(p, Catch(r, "io")) /\ UNCHANGED challenges
           ELSE /\ challenges' = challenges \ ExpiredOf(w, now)
                /\ Step(p, [r EXCEPT !.pc = "chCreate",
                                     !.challenge = generateChallenge(now, rnd),
                                     !.expiresAt = getChallengeExpiry(now)])
    /\ UNCHANGED <<authReq, now, ticks, users, nextChallengeId, nextUserId, issued, marked, succeeded>>

\* the unique constraint on authChallenge.challenge (the key of findUnique)
ChallengeCreateConflicts(c) == \E row \in challenges : row.challenge = c

\* lines 61-75: the create runs; then the response is sent
ChallengeCreate(p, fail) ==
    /\ proc[p].pc = "chCreate"
    /\ MayFail(fail)
    /\ faults' = Faults(fail)
    /\ IF fail \/ ChallengeCreateConflicts(proc[p].challenge)
       THEN /\ Step(p, Catch(proc[p], IF fail THEN "io" ELSE "conflict"))
            /\ UNCHANGED <<challenges, nextChallengeId, issued>>
       ELSE /\ challenges' = challenges \cup
                 {[id |-> nextChallengeId, challenge |-> proc[p].challenge,
                   walletAddress |-> proc[p].walletAddress,
                   expiresAt |-> proc[p].expiresAt,
                   isUsed |-> FALSE, usedAt |-> Null, userId |-> Null]}
            /\ nextChallengeId' = nextChallengeId + 1
            /\ issued' = issued \cup {proc[p].challenge}
            /\ Step(p, Respond(proc[p], 200))
    /\ UNCHANGED <<authReq, requests, now, ticks, users, nextUserId, marked, succeeded>>

----------------------------------------------------------------------------
(* POST /connect *)

\* the check of the fields dropped
FieldsPresentAlways(w, c, s) == TRUE

\* line 102
FieldsPresent(w, c, s) == w # "" /\ c # Missing /\ s # Missing

\* the wallet check dropped: any wallet may present the challenge
WalletMatchesAlways(authChallenge, walletAddress) == TRUE

\* line 133
WalletMatches(authChallenge, walletAddress) ==
    authChallenge.walletAddress = walletAddress

\* lines 99-159: validation, the findUnique of the challenge, and the checks
\* on the row it returned, up to the call of delete or of verifySignature
ConnectStart(p, w, c, s, fail) ==
    /\ Free(p)
    /\ requests < MaxRequests
    /\ requests' = requests + 1
    /\ MayFail(fail)
    /\ fail => FieldsPresent(w, c, s) /\ isValidStellarAddress(w)
    /\ faults' = Faults(fail)
    /\ Step(p, LET r  == [IdleProc EXCEPT !.pc = "find", !.route = "connect",
                                    !.walletAddress = w,
                                    !.challenge = c, !.signature = s,
                                    !.replay = Replayed(w, c, s),
                                    !.late = FailedInUserStep(c)]
             ac == FindChallenge(c)
         IN  IF ~FieldsPresent(w, c, s) THEN Reject(r, 400, "missing")
             ELSE IF ~isValidStellarAddress(w) THEN Reject(r, 400, "format")
             ELSE IF fail THEN Catch(r, "io")
             ELSE IF ac = NoChallenge THEN Reject(r, 401, "absent")
             ELSE IF ~WalletMatches(ac, w)
                  THEN Reject([r EXCEPT !.authChallenge = ac], 401, "mismatch")
             ELSE IF isChallengeExpired(ac.expiresAt, now)
                  THEN [r EXCEPT !.authChallenge = ac, !.expired = TRUE,
                                 !.pc = "delete"]
             ELSE IF ac.isUsed
                  THEN Reject([r EXCEPT !.authChallenge = ac], 401, "used")
             ELSE [r EXCEPT !.authChallenge = ac, !.pc = "verify"])
    /\ UNCHANGED <<authReq, now, ticks, challenges, users, nextChallengeId, nextUserId,
                   issued, marked, succeeded>>

\* lines 143-150: delete({ where: { id } }) runs; then the 401 is sent
ConnectDelete(p, fail) ==
    /\ proc[p].pc = "delete"
    /\ MayFail(fail)
    /\ faults' = Faults(fail)
    /\ IF fail \/ ~ChallengeRowExists(proc[p].authChallenge.id)
       THEN /\ Step(p, Catch(proc[p], IF fail THEN "io" ELSE "notfound"))
            /\ UNCHANGED challenges
       ELSE /\ challenges' = {row \in challenges : row.id # proc[p].authChallenge.id}
            /\ Step(p, Reject(proc[p], 401, "expired"))
    /\ UNCHANGED <<authReq, requests, now, ticks, users, nextChallengeId, nextUserId,
                   issued, marked, succeeded>>

\* the row is written used before the signature is looked at
ConnectVerifyAfterMark(p, fail) ==
    /\ proc[p].pc = "verify"
    /\ MayFail(fail)
    /\ faults' = Faults(fail)
    /\ challenges' =
         {IF row.id = proc[p].authChallenge.id
          THEN [row EXCEPT !.isUsed = TRUE, !.usedAt = now] ELSE row : row \in challenges}
    /\ Step(p, IF fail THEN Catch(proc[p], "io")
         ELSE IF ~verifySignature(proc[p].walletAddress, proc[p].challenge, proc[p].signature)
         THEN Reject(proc[p], 401, "signature")
         ELSE [proc[p] EXCEPT !.pc = "markUsed", !.usedAt = now])
    /\ UNCHANGED <<authReq, requests, now, ticks, users, nextChallengeId, nextUserId,
                   issued, marked, succeeded>>

\* lines 162-177: verifySignature resolves, or rejects, which lands in the
\* catch block; then the mark-used update is called with usedAt: new Date()
ConnectVerify(p, fail) ==
    /\ proc[p].pc = "verify"
    /\ MayFail(fail)
    /\ faults' = Faults(fail)
    /\ Step(p, IF fail THEN Catch(proc[p], "io")
         ELSE IF ~verifySignature(proc[p].walletAddress, proc[p].challenge, proc[p].signature)
         THEN Reject(proc[p], 401, "signature")
         ELSE [proc[p] EXCEPT !.pc = "markUsed", !.usedAt = now])
    /\ UNCHANGED <<authReq, requests, now, ticks, challenges, users, nextChallengeId, nextUserId,
                   issued, marked, succeeded>>

\* the update writes the flag and leaves usedAt as it was
MarkUsedUnstamped(row, usedAt) == [row EXCEPT !.isUsed = TRUE]

\* the update is undone: the row is as it was
MarkUsedRolledBack(row, usedAt) == row

\* the row an update({ where: { id }, data: { isUsed: true, usedAt } }) leaves
MarkUsed(row, usedAt) == [row EXCEPT !.isUsed = TRUE, !.usedAt = usedAt]

\* lines 172-183: the mark-used update runs; then user.findUnique is called
ConnectMarkUsed(p, fail) ==
    /\ proc[p].pc = "markUsed"
    /\ MayFail(fail)
    /\ faults' = Faults(fail)
    /\ IF fail \/ ~ChallengeRowExists(proc[p].authChallenge.id)
       THEN /\ Step(p, Catch(proc[p], IF fail THEN "io" ELSE "notfound"))
            /\ UNCHANGED <<challenges, marked>>
       ELSE /\ challenges' =
                 {IF row.id = proc[p].authChallenge.id
                  THEN MarkUsed(row, proc[p].usedAt) ELSE row : row \in challenges}
            /\ marked' = marked \cup
                 {<<proc[p].challenge, TimesMarked(proc[p].challenge) + 1>>}
            /\ Step(p, [proc[p] EXCEPT !.pc = "findUser"])
    /\ UNCHANGED <<authReq, requests, now, ticks, users, nextChallengeId, nextUserId,
                   issued, succeeded>>

\* lines 181-203: user.findUnique runs; then now = new Date() is read and the
\* create or the update is called
ConnectFindUser(p, fail) ==
    /\ proc[p].pc = "findUser"
    /\ MayFail(fail)
    /\ faults' = Faults(fail)
    /\ Step(p, IF fail THEN Catch(proc[p], "io")
         ELSE [proc[p] EXCEPT !.pc = "upsert",
                        !.user = FindUser(proc[p].walletAddress),
                        !.now = now])
    /\ UNCHANGED <<authReq, requests, now, ticks, challenges, users, nextChallengeId, nextUserId,
                   issued, marked, succeeded>>

\* walletAddress not unique: create never conflicts
UserCreateNeverConflicts(w) == FALSE

\* the unique constraint on user.walletAddress
UserCreateConflicts(w) == \E u \in users : u.walletAddress = w

\* the row prisma.user.create({ data }) inserts
CreatedUser(w, lastLoginAt) ==
    [id |-> nextUserId, walletAddress |-> w, lastLoginAt |-> lastLoginAt]

\* the row an update({ where: { walletAddress }, data: { lastLoginAt } }) leaves
UpdatedUser(u, lastLoginAt) == [u EXCEPT !.lastLoginAt = lastLoginAt]

\* lines 187-204: the create (no user was found) or the update (one was) runs
ConnectUpsert(p, fail) ==
    /\ proc[p].pc = "upsert"
    /\ MayFail(fail)
    /\ faults' = Faults(fail)
    /\ LET r == proc[p]
           w == proc[p].walletAddress
       IN  IF fail
           THEN /\ Step(p, Catch(proc[p], "io"))
                /\ UNCHANGED <<users, nextUserId>>
           ELSE IF r.user = NoUser
           THEN IF UserCreateConflicts(w)
                THEN /\ Step(p, Catch(proc[p], "conflict"))
                     /\ UNCHANGED <<users, nextUserId>>
                ELSE /\ users' = users \cup {CreatedUser(w, r.now)}
                     /\ nextUserId' = nextUserId + 1
                     /\ Step(p, [proc[p] EXCEPT !.pc = "link", !.user = CreatedUser(w, r.now)])
           ELSE IF FindUser(w) = NoUser
                THEN /\ Step(p, Catch(proc[p], "notfound"))
                     /\ UNCHANGED <<users, nextUserId>>
                ELSE /\ users' = {IF u.walletAddress = w
                                  THEN UpdatedUser(u, r.now) ELSE u : u \in users}
                     /\ nextUserId' = nextUserId
                     /\ Step(p, [proc[p] EXCEPT !.pc = "link",
                                    !.user = UpdatedUser(FindUser(w), r.now)])
    /\ UNCHANGED <<authReq, requests, now, ticks, challenges, nextChallengeId, issued,
                   marked, succeeded>>

\* line 215
SessionToken(user) == generateToken(user.id, user.walletAddress)

\* lines 207-226: the link update runs; then the token is generated and the
\* housekeeping deleteMany is called with its cutoff read from the clock
ConnectLink(p, fail) ==
    /\ proc[p].pc = "link"
    /\ MayFail(fail)
    /\ faults' = Faults(fail)
    /\ IF fail \/ ~ChallengeRowExists(proc[p].authChallenge.id)
       THEN /\ Step(p, Catch(proc[p], IF fail THEN "io" ELSE "notfound"))
            /\ UNCHANGED challenges
       ELSE /\ challenges' =
                 {IF row.id = proc[p].authChallenge.id
                  THEN [row EXCEPT !.userId = proc[p].user.id] ELSE row : row \in challenges}
            /\ Step(p, [proc[p] EXCEPT !.pc = "purge", !.token = SessionToken(proc[p].user),
                           !.cutoff = now - RetentionMinutes])
    /\ UNCHANGED <<authReq, requests, now, ticks, users, nextChallengeId, nextUserId,
                   issued, marked, succeeded>>

\* the rows deleteMany({ walletAddress, isUsed: true, usedAt: { lt } }) matches
OldUsedOf(w, before) ==
    {row \in challenges :
        row.walletAddress = w /\ row.isUsed /\ row.usedAt # Null /\ row.usedAt < before}

\* lines 218-238: the deleteMany runs; then the 200 is sent
ConnectPurge(p, fail) ==
    /\ proc[p].pc = "purge"
    /\ MayFail(fail)
    /\ faults' = Faults(fail)
    /\ IF fail
       THEN /\ Step(p, Catch(proc[p], "io"))
            /\ UNCHANGED <<challenges, marked, succeeded>>
       ELSE /\ challenges' = challenges \ OldUsedOf(proc[p].walletAddress, proc[p].cutoff)
            /\ Step(p, Respond(proc[p], 200))
            /\ succeeded' = succeeded \cup
                 {<<proc[p].walletAddress, proc[p].challenge, proc[p].signature,
                    TimesSucceeded(proc[p].challenge) + 1>>}
    /\ UNCHANGED <<authReq, requests, now, ticks, users, nextChallengeId, nextUserId, issued, marked>>

----------------------------------------------------------------------------

\* a request of POST /connect that passes validation
ConnectRequest(p, w, c, fail) ==
    \E s \in WellFormedSignatures(w, c) : ConnectStart(p, w, c, s, fail)

\* concurrent requests that pass validation
Next ==
    \/ \E d \in TickSteps : Tick(d)
    \/ \E p \in Procs, w \in Wallets, rnd \in RandomValues, fail \in BOOLEAN :
         ChallengeStart(p, w, rnd, fail)
    \/ \E p \in Procs, fail \in BOOLEAN : ChallengeCreate(p, fail)
    \/ \E p \in Procs, w \in Wallets, c \in WellFormedTokens, fail \in BOOLEAN :
         ConnectRequest(p, w, c, fail)
    \/ \E p \in Procs, fail \in BOOLEAN : ConnectDelete(p, fail)
    \/ \E p \in Procs, fail \in BOOLEAN : ConnectVerify(p, fail)
    \/ \E p \in Procs, fail \in BOOLEAN : ConnectMarkUsed(p, fail)
    \/ \E p \in Procs, fail \in BOOLEAN : ConnectFindUser(p, fail)
    \/ \E p \in Procs, fail \in BOOLEAN : ConnectUpsert(p, fail)
    \/ \E p \in Procs, fail \in BOOLEAN : ConnectLink(p, fail)
    \/ \E p \in Procs, fail \in BOOLEAN : ConnectPurge(p, fail)

Spec == Init /\ [][Next]_vars

\* a request of POST /connect with any body
ConnectAnyRequest(p, w, c, fail) ==
    \E s \in SignatureInputs(w, c) : ConnectStart(p, w, c, s, fail)

\* concurrent requests with any body, valid or not
NextAnyInput ==
    \/ \E d \in TickSteps : Tick(d)
    \/ \E p \in Procs, w \in WalletInputs, rnd \in RandomValues, fail \in BOOLEAN :
         requests < MaxAnyRequests /\ ChallengeStart(p, w, rnd, fail)
    \/ \E p \in Procs, fail \in BOOLEAN : ChallengeCreate(p, fail)
    \/ \E p \in Procs, w \in WalletInputs, c \in TokenInputs, fail \in BOOLEAN :
         requests < MaxAnyRequests /\ ConnectAnyRequest(p, w, c, fail)
    \/ \E p \in Procs, fail \in BOOLEAN : ConnectDelete(p, fail)
    \/ \E p \in Procs, fail \in BOOLEAN : ConnectVerify(p, fail)
    \/ \E p \in Procs, fail \in BOOLEAN : ConnectMarkUsed(p, fail)
    \/ \E p \in Procs, fail \in BOOLEAN : ConnectFindUser(p, fail)
    \/ \E p \in Procs, fail \in BOOLEAN : ConnectUpsert(p, fail)
    \/ \E p \in Procs, fail \in BOOLEAN : ConnectLink(p, fail)
    \/ \E p \in Procs, fail \in BOOLEAN : ConnectPurge(p, fail)

SpecAnyInput == Init /\ [][NextAnyInput]_vars

\* the operation the request of process p awaits settles: it resolves or it
\* rejects, and the handler goes on
Settle(p) ==
    \E fail \in BOOLEAN :
        \/ ChallengeCreate(p, fail)
        \/ ConnectDelete(p, fail)
        \/ ConnectVerify(p, fail)
        \/ ConnectMarkUsed(p, fail)
        \/ ConnectFindUser(p, fail)
        \/ ConnectUpsert(p, fail)
        \/ ConnectLink(p, fail)
        \/ ConnectPurge(p, fail)

\* every awaited operation settles in the end (the store's calls carry a
\* bounded timeout, the signature check is CPU-bound)
SpecLive ==
    /\ Init
    /\ [][NextAnyInput]_vars
    /\ \A p \in Procs : WF_vars(Settle(p))

----------------------------------------------------------------------------
(* authenticateToken, the middleware of the protected routes *)

\* a header value is <<prefix, rest>>: the first 7 characters (fewer when the
\* value is shorter) and what follows them; an absent header is Missing
Prefixes == {"Bearer ", "bearer ", "Basic ", "Bearer"}

\* what may follow the prefix: a session token, a stale or made-up one, or
\* nothing
TokenTexts == SessionTokens \cup StaleTokens \cup {BogusToken, Missing}

Headers == {Missing} \cup {<<x, t>> : x \in Prefixes, t \in TokenTexts}

\* the token variable of line 88 when the header is absent or not Bearer
NullToken == <<"null">>

\* every scheme is taken for Bearer
BearerTokenOfAnyScheme(authHeader) ==
    IF authHeader # Missing THEN authHeader[2] ELSE NullToken

\* lines 88-90: authHeader && authHeader.startsWith('Bearer ')
\*                 ? authHeader.substring(7) : null
BearerToken(authHeader) ==
    IF authHeader # Missing /\ authHeader[1] = "Bearer "
    THEN authHeader[2]
    ELSE NullToken

\* line 92: !token, true of null and of the empty string
Falsy(token) == token \in {NullToken, Missing}

\* a request with the header arrives at a protected route
Receive(p, authHeader) ==
    /\ authReq[p].pc # "received"
    /\ authReq' = [authReq EXCEPT ![p] =
                     [NoAuthRequest EXCEPT !.pc = "received", !.header = authHeader]]
    /\ UNCHANGED <<now, ticks, challenges, users, nextChallengeId, nextUserId,
                   proc, last, requests, faults, issued, marked, succeeded, failed>>

\* lines 84-121: the middleware runs, from the header to next() or the 401
authenticateToken(p) ==
    /\ authReq[p].pc = "received"
    /\ LET r       == authReq[p]
           token   == BearerToken(r.header)
           decoded == verifyToken(token)
       IN  authReq' = [authReq EXCEPT ![p] =
             IF Falsy(token)
             THEN [r EXCEPT !.pc = "answered", !.status = 401,
                            !.message = "Access token is required"]
             ELSE IF decoded = NoClaims
             THEN [r EXCEPT !.pc = "answered", !.status = 401,
                            !.message = "Invalid or expired token"]
             ELSE [r EXCEPT !.pc = "passed", !.user = decoded,
                            !.nextCalled = TRUE]]
    /\ UNCHANGED <<now, ticks, challenges, users, nextChallengeId, nextUserId,
                   proc, last, requests, faults, issued, marked, succeeded, failed>>

NextMiddleware ==
    \/ \E p \in Procs, h \in Headers : Receive(p, h)
    \/ \E p \in Procs : authenticateToken(p)

SpecMiddleware == Init /\ [][NextMiddleware]_vars

----------------------------------------------------------------------------
(* Properties of POST /connect.  A response is read in the state right     *)
(* after it is sent, where last holds it with the request's locals.        *)

\* last is a response of POST /connect that no transient I/O error caused
Answered == last.route = "connect" /\ last.pc = "done" /\ last.threw # "io"

\* C1: for every challenge token, over every interleaving of the requests
\* that carry it, at most one POST /connect is answered 200
C1_AtMostOneSuccessPerChallenge ==
    \A t \in succeeded : t[4] = 1

\* C2: a POST /connect that repeats a request already answered 200 is
\* answered 401 and gets no session token
C2_ReplayIsRejected ==
    (Answered /\ last.replay) => (last.status = 401 /\ last.token = Missing)

\* C3: a POST /connect whose challenge is past expiresAt when it is checked is
\* answered 401, never 200, whatever the signature and the isUsed flag
C3_ExpiredIsRejected ==
    (Answered /\ last.expired) => last.status = 401

\* C4: a challenge stored for one wallet is never taken up by a request that
\* names another wallet: no such request gets past the wallet check, and it
\* is answered 401 without a session token
C4_CrossBinding ==
    /\ \A p \in Procs :
         proc[p].authChallenge # NoChallenge
            => proc[p].authChallenge.walletAddress = proc[p].walletAddress
    /\ (Answered /\ last.authChallenge # NoChallenge
          /\ last.authChallenge.walletAddress # last.walletAddress)
         => (last.status = 401 /\ last.token = Missing /\ last.usedAt = Null)

\* C4 witness: wallet B presents A's unused, unexpired challenge with B's own
\* valid signature over it, and is answered 401
C4_Witness ==
    /\ Answered
    /\ last.status = 401
    /\ last.authChallenge.walletAddress \in Wallets \ {last.walletAddress}
    /\ ~last.authChallenge.isUsed
    /\ ~isChallengeExpired(last.authChallenge.expiresAt, now)
    /\ verifySignature(last.walletAddress, last.challenge, last.signature)
    /\ \E row \in challenges : row.challenge = last.challenge /\ ~row.isUsed

\* C5: every 200 of POST /connect carries a session token for, and returns,
\* the user row of the request's walletAddress, which is the wallet of the
\* consumed challenge and the address the signature was verified against
C5_IdentityBinding ==
    (last.route = "connect" /\ last.status = 200) =>
        /\ last.user.walletAddress = last.walletAddress
        /\ \E u \in users :
             u.id = last.user.id /\ u.walletAddress = last.walletAddress
        /\ last.token = <<last.user.id, last.walletAddress>>
        /\ last.authChallenge.walletAddress = last.walletAddress
        /\ last.authChallenge.challenge = last.challenge
        /\ last.signature = Sign(last.walletAddress, last.challenge)

\* C5 witness: a 200 for one wallet while the user table also holds a row of
\* another wallet
C5_Witness ==
    /\ last.route = "connect"
    /\ last.status = 200
    /\ \E u \in users : u.walletAddress # last.walletAddress

\* C6: the user table never holds two rows with one walletAddress
C6_OneUserPerWallet ==
    \A u, v \in users : u.walletAddress = v.walletAddress => u = v

\* C6 witness: a request that saw no user for its wallet called create after
\* another request, with a challenge of its own, had created the row
C6_Witness ==
    /\ last.route = "connect"
    /\ last.now # Null
    /\ last.user = NoUser
    /\ last.threw = "conflict"
    /\ \E u \in users : u.walletAddress = last.walletAddress
    /\ \E row \in challenges :
         /\ row.walletAddress = last.walletAddress
         /\ row.isUsed
         /\ row.id # last.authChallenge.id
    /\ TimesMarked(last.challenge) = 1

\* C7: a request that saw no user for its wallet, the only one to mark its
\* challenge used, and whose create lost to a concurrent create, still ends
\* with 200
C7_LoserStillAuthenticates ==
    (Answered /\ last.now # Null /\ last.user = NoUser
       /\ TimesMarked(last.challenge) = 1)
    => last.status = 200

\* C8: no write to a user row lowers its lastLoginAt
C8_LastLoginNeverDecreases ==
    [][\A u \in users : \A v \in users' :
          u.id = v.id => v.lastLoginAt >= u.lastLoginAt]_vars

\* an honest request: the challenge was issued for the wallet that presents
\* it, was unused and unexpired when looked up, and is signed by that wallet
Honest(r) ==
    /\ r.route = "connect"
    /\ r.pc = "done"
    /\ r.authChallenge # NoChallenge
    /\ r.authChallenge.walletAddress = r.walletAddress
    /\ ~r.authChallenge.isUsed
    /\ ~r.expired
    /\ r.signature = Sign(r.walletAddress, r.challenge)

\* C9: an honest request that is answered before expiresAt, with no store
\* failure and no other request marking its challenge used, is answered 200
\* with the user of its wallet, and leaves the challenge used
C9_HonestFlowSucceeds ==
    (/\ Honest(last)
     /\ last.threw # "io"
     /\ now <= last.authChallenge.expiresAt
     /\ TimesMarked(last.challenge) <= 1)
    => /\ last.status = 200
       /\ last.user.walletAddress = last.walletAddress
       /\ FindChallenge(last.challenge).isUsed

\* C10: a request that finds its challenge expired is answered 401, never
\* 500, and the challenge is gone from the store afterwards
C10_ExpiredIsPurged ==
    (Answered /\ last.expired) =>
        (last.status = 401 /\ FindChallenge(last.challenge) = NoChallenge)

\* C11: a challenge row is unused at creation, no step turns isUsed of a
\* stored row back to false, and in every row usedAt holds a time exactly
\* when isUsed is true
C11_IsUsedMonotonic ==
    [][\A row \in challenges' :
          /\ row.isUsed <=> row.usedAt # Null
          /\ (\A old \in challenges : old.id # row.id) => ~row.isUsed
          /\ \A old \in challenges :
                (old.id = row.id /\ old.isUsed) => row.isUsed]_vars

\* C11 witness: a row that two requests have written used is still stored,
\* used and stamped
C11_Witness ==
    \E row \in challenges :
        /\ TimesMarked(row.challenge) = 2
        /\ row.isUsed
        /\ row.usedAt # Null

\* C12: a POST /connect that throws in a user step, after its mark-used
\* write, is answered 500 without a session token and leaves the challenge
\* used; and a POST /connect that starts with that challenge afterwards is
\* never answered 200
C12_ConsumedAfterFailure ==
    /\ (last.route = "connect" /\ last.at \in UserSteps) =>
          /\ last.status = 500
          /\ last.token = Missing
          /\ \A row \in challenges : row.challenge = last.challenge => row.isUsed
    /\ (last.route = "connect" /\ last.late) => last.status # 200

\* C12 witness: a request that starts after such a failure finds the
\* challenge stored as used and is answered 401
C12_Witness ==
    /\ last.route = "connect"
    /\ last.late
    /\ last.status = 401
    /\ last.reason = "used"
    /\ last.signature = Sign(last.walletAddress, last.challenge)
    /\ FindChallenge(last.challenge).isUsed

\* the housekeeping deleteMany of POST /challenge and of POST /connect
PurgeSteps == {"chPurge", "purge"}

\* C13: a request whose housekeeping deleteMany fails is answered as if it
\* had not failed: 200, with the challenge or the session
C13_PurgeIsAdvisory ==
    (last.pc = "done" /\ last.threw = "io" /\ last.at \in PurgeSteps)
    => last.status = 200

\* C14: a request whose link update throws, because the store fails or
\* because the challenge row is gone, is still answered 200 with its session
\* token
C14_LinkIsNonCritical ==
    (last.route = "connect" /\ last.pc = "done" /\ last.at = "link")
    => (last.status = 200 /\ last.token # Missing)

\* a row the spec lets housekeeping delete at time t: expired and unused, or
\* used for longer than the retention window
Deletable(row, t) ==
    \/ (~row.isUsed /\ isChallengeExpired(row.expiresAt, t))
    \/ (row.isUsed /\ row.usedAt # Null /\ row.usedAt < t - RetentionMinutes)

\* C15: every row a step deletes is expired and unused, or used for more than
\* 24 hours
C15_Retention ==
    [][\A row \in challenges :
          (\A kept \in challenges' : kept.id # row.id) => Deletable(row, now)]_vars

\* the time at which a token was generated
IssuedAt(token) == token[2]

C17_ConflictIsRetried ==
    (last.route = "challenge" /\ last.pc = "done" /\ last.at = "chCreate")
    => last.threw # "conflict"

\* the answer to a request whose token was never issued
NeverIssuedResponse == <<401, "Invalid or expired challenge">>

\* C18: a request whose token is stored for its wallet but expired, or
\* already used, gets the very answer it would get if the token had never
\* been issued
C18_NoEnumerationLeak ==
    (/\ Answered
     /\ last.authChallenge # NoChallenge
     /\ last.authChallenge.walletAddress = last.walletAddress
     /\ (last.expired \/ last.authChallenge.isUsed))
    => ResponseBody(last) = NeverIssuedResponse

\* a request body that passes validation
ValidRequest(r) ==
    /\ r.walletAddress \in Wallets
    /\ r.route = "connect" => (r.challenge # Missing /\ r.signature # Missing)

\* C19: a step that answers 400 leaves the challenge table and the user
\* table as they were and runs no store operation that could fail; and a
\* request with a missing field or a malformed address gets no further than
\* that: it is answered 400 in its first step
C19_ValidationPrecedesMutation ==
    [][/\ last'.status = 400 =>
             UNCHANGED <<challenges, users, nextChallengeId, nextUserId, faults>>
       /\ \A p \in Procs : proc'[p].pc # "idle" => ValidRequest(proc'[p])
       /\ (last'.pc = "done" /\ ~ValidRequest(last')) => last'.status = 400]_vars

\* C19 witness: a POST /connect with a stored token and no signature is
\* answered 400 while another request is in flight
C19_Witness ==
    /\ last.route = "connect"
    /\ last.status = 400
    /\ last.walletAddress \in Wallets
    /\ FindChallenge(last.challenge) # NoChallenge
    /\ last.signature = Missing
    /\ \E p \in Procs : proc[p].pc # "idle"

\* the header carries a Bearer token for which verifyToken returns claims
Authorized(authHeader) ==
    /\ authHeader # Missing
    /\ authHeader[1] = "Bearer "
    /\ ~Falsy(authHeader[2])
    /\ verifyToken(authHeader[2]) # NoClaims

\* C20: authenticateToken calls next() exactly for a header that carries a
\* Bearer token verifyToken accepts, and then req.user is the claims of that
\* token; every other request is answered 401, next() is not called and
\* req.user is not set
C20_AuthenticateToken ==
    \A p \in Procs :
        authReq[p].pc \in {"answered", "passed"} =>
            IF Authorized(authReq[p].header)
            THEN /\ authReq[p].nextCalled
                 /\ authReq[p].status = 0
                 /\ authReq[p].user = verifyToken(authReq[p].header[2])
            ELSE /\ ~authReq[p].nextCalled
                 /\ authReq[p].status = 401
                 /\ authReq[p].user = NoClaims

\* C20 witness: one request is let through with its claims while another,
\* which carries the same token under another scheme, is answered 401
C20_Witness ==
    \E p, q \in Procs :
        /\ authReq[p].pc = "passed"
        /\ authReq[p].user.userId \in UserIds
        /\ authReq[q].pc = "answered"
        /\ authReq[q].header # Missing
        /\ authReq[q].header[1] = "Basic "
        /\ authReq[q].header[2] = authReq[p].header[2]

\* the first check of the fixed order that the request r fails, with the row
\* its lookup returned; "none" when it passes them all
FirstFailingCheck(r) ==
    IF ~(r.walletAddress # "" /\ r.challenge # Missing /\ r.signature # Missing)
    THEN <<400, "missing">>
    ELSE IF r.walletAddress \notin Wallets THEN <<400, "format">>
    ELSE IF \A t \in issued : t # r.challenge THEN <<401, "absent">>
    ELSE IF r.authChallenge = NoChallenge THEN <<401, "absent">>
    ELSE IF r.authChallenge.walletAddress # r.walletAddress THEN <<401, "mismatch">>
    ELSE IF r.expired THEN <<401, "expired">>
    ELSE IF r.authChallenge.isUsed THEN <<401, "used">>
    ELSE IF r.signature # Sign(r.walletAddress, r.challenge) THEN <<401, "signature">>
    ELSE <<0, "none">>

\* C21: a POST /connect is answered by the first check it fails, in the order
\* fields, address, found, wallet, expiry, used, signature; the expired
\* answer is a 401 with the row deleted, also for a used row, and the wallet
\* mismatch leaves the row stored, also when it is expired
C21_FirstFailingCheckDecides ==
    (Answered /\ FirstFailingCheck(last) # <<0, "none">>) =>
        /\ <<last.status, last.reason>> = FirstFailingCheck(last)
        /\ last.reason = "expired" =>
              /\ isChallengeExpired(last.authChallenge.expiresAt, now)
              /\ \A row \in challenges : row.id # last.authChallenge.id
        /\ last.reason = "mismatch" =>
              \E row \in challenges : row.id = last.authChallenge.id

\* C22: no row is written used after its expiry: usedAt of a used row is not
\* past its expiresAt
C22_NotConsumedAfterExpiry ==
    \A row \in challenges : row.isUsed => row.usedAt <= row.expiresAt

\* the 401 answers that come before any write: no row, another wallet's
\* row, a used row, an invalid signature
PlainRejections == {"absent", "mismatch", "used", "signature"}

\* C23: the step that sends a 401 for an absent, foreign or used challenge or
\* for an invalid signature changes no challenge row and no user row, and
\* neither does the lookup step of a request that is then verified; the step
\* that sends the 401 for an expired challenge deletes that one row and
\* changes nothing else
C23_RejectionChangesNothing ==
    [][/\ (last'.route = "connect" /\ last'.status = 401
             /\ last'.reason \in PlainRejections)
            => UNCHANGED <<challenges, users, nextChallengeId, nextUserId>>
       /\ (\E p \in Procs : proc[p].pc = "idle" /\ proc'[p].pc \in {"verify", "delete"})
            => UNCHANGED <<challenges, users, nextChallengeId, nextUserId>>
       /\ (last'.route = "connect" /\ last'.status = 401
             /\ last'.reason = "expired")
            => /\ challenges' =
                    {row \in challenges : row.id # last'.authChallenge.id}
               /\ UNCHANGED <<users, nextChallengeId, nextUserId>>]_vars

\* C23 witness: a request with a stored, unused, unexpired challenge of its
\* wallet and a signature that does not verify is answered 401, with the row
\* still unused
C23_Witness ==
    /\ last.route = "connect"
    /\ last.status = 401
    /\ last.reason = "signature"
    /\ \E row \in challenges :
         /\ row.id = last.authChallenge.id
         /\ row.walletAddress = last.walletAddress
         /\ ~row.isUsed
         /\ row.usedAt = Null
    /\ users # {}

\* the step ends the request of process p, or starts and ends a request
Ended(p) == proc[p].pc # "idle" /\ proc'[p].pc = "idle"

AnsweredAtOnce == requests' = requests + 1 /\ proc' = proc

\* C24: every request is answered in the end; a step sends an answer exactly
\* when it ends one request; the status is 200, 400 or 500 for POST
\* /challenge and 200, 400, 401 or 500 for POST /connect; and a 200 of POST
\* /connect comes after the mark-used write of that request
C24_EveryRequestIsAnswered ==
    /\ \A p \in Procs : (proc[p].pc # "idle") ~> (proc[p].pc = "idle")
    /\ [][(last'.pc = "done") <=> ((\E p \in Procs : Ended(p)) \/ AnsweredAtOnce)]_vars
    /\ [](last.route = "challenge" => last.status \in {200, 400, 500})
    /\ [](last.route = "connect" => last.status \in {200, 400, 401, 500})
    /\ []((last.route = "connect" /\ last.status = 200) =>
            (last.usedAt # Null /\ TimesMarked(last.challenge) >= 1))

\* C24 witness: a request that passed every check and threw in a later
\* step has been answered 500, and no request is left in flight
C24_Witness ==
    /\ last.route = "connect"
    /\ last.status = 500
    /\ last.at \in AfterMarkUsed
    /\ \A p \in Procs : proc[p].pc = "idle"

====
